---- MODULE Spec2Model ----
(***************************************************************************)
(* node-coal: a cache-aside layer over a Redis-like store, with a spin    *)
(* lock taken through SET NX PX.  The model follows src/lib/index.js.     *)
(*                                                                         *)
(* Every call (get / set / del) is made by one caller p \in Procs.  A     *)
(* caller's commands travel to the store on its own connection, in FIFO   *)
(* order; the store executes a command and the command's callback runs in *)
(* the same step (the *Reply actions).  Time is an integer clock in ms;   *)
(* setInterval callbacks fire at start + n * retryDelay.                  *)
(***************************************************************************)
EXTENDS Integers, Sequences, FiniteSets, TLC

(***************************************************************************)
(* Program constants                                                       *)
(***************************************************************************)
defaultTimeout == 100
defaultTTL == 30000
lockSlack == 500
retryDelayMin == 10
retryDelayMax == 30
prefix == "coal:"

(***************************************************************************)
(* Bounds of the model                                                     *)
(***************************************************************************)
\* commands of one caller's spin loop that may be waiting at the store
MaxInflight == 2
\* store commands that may fail with an error in one behaviour
MaxFaults == 1
\* the clock stops here; cache entries (TTL >= 1000 ms) outlive the horizon
MaxTime == 700

Procs == {1, 2, 3}
Never == -1

VARIABLES now, store, proc, faults, menu

vars == <<now, store, proc, faults, menu>>

(***************************************************************************)
(* Values and the codec                                                    *)
(***************************************************************************)
Val(t, s) == [t |-> t, s |-> s, n |-> 0]
Str(s) == Val("str", s)
Num(s) == Val("num", s)
Bool(s) == Val("bool", s)
Obj(s) == Val("obj", s)
Null == Val("null", "null")
Undefined == Val("undefined", "undefined")
Stats(n) == [t |-> "stats", s |-> "", n |-> n]
Count(n) == [t |-> "count", s |-> "", n |-> n]
Err(kind, msg) == [t |-> kind, s |-> msg, n |-> 0]
NoRes == Val("none", "")

\* texts of the model's universe that JSON.parse accepts, and what it yields
JsonNumbers == {"123"}
JsonBools == {"true", "false"}
JsonObjects == {"{\"n\":1}"}
IsJSON(txt) == txt \in JsonNumbers \cup JsonBools \cup JsonObjects \cup {"null"}
JsonParse(txt) ==
    IF txt \in JsonNumbers THEN Num(txt)
    ELSE IF txt \in JsonBools THEN Bool(txt)
    ELSE IF txt \in JsonObjects THEN Obj(txt)
    ELSE Null

\* typeof value === 'object'
IsObject(v) == v.t \in {"obj", "null"}

\* set: JSON.stringify for objects, toString otherwise
Encode(v) == v.s

\* get's final .then: JSON.parse unless null or an object; a parse failure
\* keeps the value
Decode(v) ==
    IF IsObject(v) THEN v
    ELSE IF IsJSON(v.s) THEN JsonParse(v.s)
    ELSE v

(***************************************************************************)
(* Store locations                                                         *)
(***************************************************************************)
EntryKey(key) == prefix \o key
LockKey(key) == prefix \o "lock:" \o key

Keys == {"a", "lock:a"}
Locs == {EntryKey(k) : k \in Keys} \cup {LockKey(k) : k \in Keys}

Absent == [v |-> "", exp |-> Never, by |-> 0, live |-> FALSE]
Rec(v, exp, p) == [v |-> v, exp |-> exp, by |-> p, live |-> TRUE]

Present(st, loc) == st[loc].live

\* GET: the stored string, or null
StoreGet(st, loc) == IF Present(st, loc) THEN Str(st[loc].v) ELSE Null

\* SET loc 1 NX PX px: the reply is "OK" when the key was absent, else null
NXGrantedWithoutNX(st, loc) == TRUE
NXGranted(st, loc) == ~Present(st, loc)
StoreSetNX(st, loc, px, p) ==
    IF NXGranted(st, loc)
    THEN [st EXCEPT ![loc] = Rec("1", now + px, p)]
    ELSE st

\* SET loc v PX ttl, or SET loc v
StoreSet(st, loc, v, ttl) ==
    [st EXCEPT ![loc] = Rec(v, IF ttl > 0 THEN now + ttl ELSE Never, 0)]

\* DEL loc
StoreDel(st, loc) == [st EXCEPT ![loc] = Absent]

\* keys whose PX expiry has passed at time t are gone
Expire(st, t) ==
    [l \in Locs |->
        IF st[l].live /\ st[l].exp # Never /\ st[l].exp <= t THEN Absent ELSE st[l]]

(***************************************************************************)
(* Calls                                                                   *)
(***************************************************************************)
\* ttl = ttl * 1000 || defaultTTL
EffTTL(given, t) == IF given /\ t * 1000 # 0 THEN t * 1000 ELSE defaultTTL

\* timeout = timeout || ((ttl > 0) ? ttl / 10 : defaultTimeout)
EffTimeout(given, to, ttl) ==
    IF given /\ to # 0 THEN to
    ELSE IF ttl > 0 THEN ttl \div 10 ELSE defaultTimeout

RetryDelays == {retryDelayMin, retryDelayMax}

\* the arguments a call was made with, before any call
NoCall ==
    [op |-> "none", key |-> "", kstr |-> TRUE, val |-> NoRes, upd |-> "none",
     updv |-> NoRes, ttlGiven |-> FALSE, ttl |-> 0, toGiven |-> FALSE, to |-> 0,
     ds |-> {}, late |-> TRUE]

\* a caller that has made no call; call keeps the arguments of the call and
\* turn the position of the call's latest lock grant among all grants
Idle ==
    [op |-> "none", call |-> NoCall, turn |-> 0, key |-> "", val |-> NoRes, upd |-> "none", updv |-> NoRes,
     ttl |-> 0, timeout |-> 0, ds |-> {}, delay |-> 0, start |-> 0, nextTick |-> 0,
     timerOn |-> FALSE, attempts |-> 0, inflight |-> 0, pc |-> "idle",
     lockP |-> "none", stats |-> 0, setP |-> "none", setRes |-> NoRes,
     out |-> "none", res |-> NoRes,
     nRecompute |-> 0, nSet |-> 0, nNX |-> 0, nAcq |-> 0, nWrite |-> 0,
     nRelease |-> 0, nDel |-> 0, nGet |-> 0, hit |-> FALSE, got |-> NoRes, endAt |-> 0]

\* a call of the workload; ds are the values Math.random may give retryDelay;
\* the call is made at time 0, or at any time when late
SetCall(key, v, ttlGiven, ttl, toGiven, to, ds, late) ==
    [op |-> "set", key |-> key, kstr |-> TRUE, val |-> v, upd |-> "none",
     updv |-> NoRes, ttlGiven |-> ttlGiven, ttl |-> ttl, toGiven |-> toGiven,
     to |-> to, ds |-> ds, late |-> late]
GetCall(key, upd, updv, ttlGiven, ttl, toGiven, to, ds) ==
    [op |-> "get", key |-> key, kstr |-> TRUE, val |-> NoRes, upd |-> upd,
     updv |-> updv, ttlGiven |-> ttlGiven, ttl |-> ttl, toGiven |-> toGiven,
     to |-> to, ds |-> ds, late |-> TRUE]
DelCall(key) ==
    [op |-> "del", key |-> key, kstr |-> TRUE, val |-> NoRes, upd |-> "none",
     updv |-> NoRes, ttlGiven |-> FALSE, ttl |-> 0, toGiven |-> FALSE, to |-> 0,
     ds |-> {}, late |-> TRUE]

(***************************************************************************)
(* Promise plumbing of Coal.prototype.set and Coal.prototype.get           *)
(***************************************************************************)
\* the promise returned by set rejects with e; get attaches no rejection
\* handler to it (this.set(...).then(onResolved)), so a get stays pending
SetRejected(r, e) ==
    [r EXCEPT !.setP = "rejected", !.setRes = e, !.pc = "end",
              !.out = IF r.op = "set" THEN "rejected" ELSE @,
              !.res = IF r.op = "set" THEN e ELSE @]

\* the promise returned by set resolves with lockStats; get then resolves
\* with the recomputed result, which its final .then decodes
SetResolved(r) ==
    [r EXCEPT !.setP = "resolved", !.setRes = Stats(r.stats), !.pc = "end",
              !.out = "resolved",
              !.res = IF r.op = "set" THEN Stats(r.stats) ELSE Decode(r.val)]

\* reject(...) of the lock promise: a settled promise ignores it
LockReject(r, e) ==
    IF r.lockP # "pending" THEN r
    ELSE SetRejected([r EXCEPT !.lockP = "rejected"], e)

LockResolveWhenSettled(r) ==
    [r EXCEPT !.lockP = "resolved", !.stats = r.attempts,
              !.pc = "writing", !.nWrite = @ + 1]

\* resolve({elapsed, attempts}) of the lock promise, whose .then issues the
\* write of the cache entry
LockResolve(r) ==
    IF r.lockP # "pending" THEN r
    ELSE [r EXCEPT !.lockP = "resolved", !.stats = r.attempts,
                   !.pc = "writing", !.nWrite = @ + 1]

AcquireLockNoGiveUp(r) ==
    [r EXCEPT !.attempts = @ + 1, !.inflight = @ + 1, !.nNX = @ + 1]

\* one run of the acquireLock closure: count the attempt, give up when the
\* elapsed time exceeds the timeout, else send SET lock 1 NX PX timeout+500
AcquireLock(r) ==
    LET elapsed == now - r.start
        r1 == [r EXCEPT !.attempts = @ + 1]
    IN  IF elapsed > r.timeout
        THEN LockReject([r1 EXCEPT !.timerOn = FALSE, !.nextTick = 0,
                                   !.endAt = IF r.lockP = "pending" THEN now ELSE @],
                        Err("AcquireError", "Error while obtaining lock to cache"))
        ELSE [r1 EXCEPT !.inflight = @ + 1, !.nNX = @ + 1]

\* callback of SET lock 1 NX PX: error, granted ("OK"), or null
NXCallback(r, ok, granted) ==
    IF ~ok
    THEN LockReject([r EXCEPT !.timerOn = FALSE, !.nextTick = 0],
                    Err("RedisError", "store"))
    ELSE IF granted
         THEN LockResolve([r EXCEPT !.timerOn = FALSE, !.nextTick = 0,
                                    !.nAcq = @ + 1])
         ELSE r

SetBeginUnchecked(r, kstr, v, ttlGiven, ttl, toGiven, to, delay) ==
    LET effTtl == EffTTL(ttlGiven, ttl)
        r0 == [r EXCEPT !.val = v, !.ttl = effTtl,
                        !.timeout = EffTimeout(toGiven, to, effTtl),
                        !.delay = delay, !.start = now, !.pc = "acquiring",
                        !.lockP = "pending", !.setP = "pending",
                        !.nSet = @ + 1,
                        !.out = IF r.op = "set" THEN "pending" ELSE @]
    IN  [AcquireLock(r0) EXCEPT !.timerOn = TRUE, !.nextTick = now + delay]

\* the synchronous part of set(key, value, ttl, timeout): validation, the
\* effective ttl and timeout, the first acquireLock() and setInterval
SetBegin(r, kstr, v, ttlGiven, ttl, toGiven, to, delay) ==
    IF ~kstr \/ v.t = "undefined"
    THEN [r EXCEPT !.setP = "thrown", !.setRes = Err("TypeError", "argument"),
                   !.pc = "end", !.nSet = @ + 1,
                   !.out = IF r.op = "set" THEN "thrown" ELSE @,
                   !.res = IF r.op = "set" THEN Err("TypeError", "argument") ELSE @]
    ELSE LET effTtl == EffTTL(ttlGiven, ttl)
             r0 == [r EXCEPT !.val = v, !.ttl = effTtl,
                             !.timeout = EffTimeout(toGiven, to, effTtl),
                             !.delay = delay, !.start = now, !.pc = "acquiring",
                             !.lockP = "pending", !.setP = "pending",
                             !.nSet = @ + 1,
                             !.out = IF r.op = "set" THEN "pending" ELSE @]
         IN  [AcquireLock(r0) EXCEPT !.timerOn = TRUE, !.nextTick = now + delay]

WriteCallbackNoRelease(r, ok) ==
    IF ok THEN SetResolved(r)
    ELSE SetRejected(r, Err("RedisError", "store"))

\* cb of the write of the cache entry: reject on an error, else send DEL lock
WriteCallback(r, ok) ==
    IF ok THEN [r EXCEPT !.pc = "releasing", !.nRelease = @ + 1]
    ELSE SetRejected(r, Err("RedisError", "store"))

\* callback of DEL lock: reject on an error, else resolve(lockStats)
ReleaseCallback(r, ok) ==
    IF ok THEN SetResolved(r)
    ELSE SetRejected(r, Err("RedisError", "store"))

GetCallbackAlwaysUpdate(r, ok, value) ==
    IF ~ok
    THEN [r EXCEPT !.pc = "end", !.out = "rejected",
                   !.res = Err("RedisError", "store")]
    ELSE IF r.upd # "none"
    THEN [r EXCEPT !.pc = "computing", !.nRecompute = @ + 1,
                   !.hit = (value # Null), !.got = value]
    ELSE [r EXCEPT !.pc = "end", !.out = "resolved",
                   !.hit = (value # Null), !.got = value,
                   !.res = Decode(value)]

\* callback of GET in get: a miss with an update function invokes it,
\* anything else resolves with the stored value, which the final .then decodes
GetCallback(r, ok, value) ==
    IF ~ok
    THEN [r EXCEPT !.pc = "end", !.out = "rejected",
                   !.res = Err("RedisError", "store")]
    ELSE IF value = Null /\ r.upd # "none"
    THEN [r EXCEPT !.pc = "computing", !.nRecompute = @ + 1,
                   !.hit = (value # Null), !.got = value]
    ELSE [r EXCEPT !.pc = "end", !.out = "resolved",
                   !.hit = (value # Null), !.got = value,
                   !.res = Decode(value)]

UpdateCallbackIgnoreErr(r, d) ==
    SetBegin(r, TRUE, r.updv, TRUE, r.ttl, TRUE, r.timeout, d)

\* the callback handed to update: reject(err), or
\* this.set(key, result, ttl, timeout)
UpdateCallback(r, d) ==
    IF r.upd = "err"
    THEN [r EXCEPT !.pc = "end", !.out = "rejected", !.res = r.updv]
    ELSE SetBegin(r, TRUE, r.updv, TRUE, r.ttl, TRUE, r.timeout, d)

\* callback of DEL in del: reject(err) or resolve(data)
DelCallback(r, ok, data) ==
    IF ok THEN [r EXCEPT !.pc = "end", !.out = "resolved", !.res = Count(data)]
    ELSE [r EXCEPT !.pc = "end", !.out = "rejected", !.res = Err("error", "store")]

(***************************************************************************)
(* Actions                                                                 *)
(***************************************************************************)
\* a store command either executes or fails with an error
Fault(ok) ==
    /\ ok \/ faults > 0
    /\ faults' = IF ok THEN faults ELSE faults - 1

\* set(key, value, ttl, timeout)
CallSet(p) ==
    /\ proc[p].pc = "idle"
    /\ \E c \in menu[p], d \in RetryDelays :
         /\ c.op = "set"
         /\ d \in c.ds
         /\ c.late \/ now = 0
         /\ proc' = [proc EXCEPT ![p] =
                SetBegin([Idle EXCEPT !.op = "set", !.key = c.key, !.call = c],
                         c.kstr, c.val, c.ttlGiven, c.ttl, c.toGiven, c.to, d)]
    /\ UNCHANGED <<now, store, faults, menu>>

\* setInterval(acquireLock, retryDelay) fires
Tick(p) ==
    LET r == proc[p]
    IN  /\ r.timerOn
        /\ now = r.nextTick
        /\ now - r.start > r.timeout \/ r.inflight < MaxInflight
        /\ proc' = [proc EXCEPT ![p] =
                        AcquireLock([r EXCEPT !.nextTick = @ + r.delay])]
        /\ UNCHANGED <<now, store, faults, menu>>

\* the number of lock grants made so far
Grants ==
    LET S == {proc[q].turn : q \in Procs}
    IN  CHOOSE n \in S : \A k \in S : k <= n

\* a grant is the next one in the order of grants
Granted(r, granted) == IF granted THEN [r EXCEPT !.turn = Grants + 1] ELSE r

\* the store executes the oldest SET NX of p and its callback runs
NXReply(p) ==
    LET r == proc[p]
        lock == LockKey(r.key)
    IN  /\ r.inflight > 0
        /\ \E ok \in BOOLEAN :
             /\ Fault(ok)
             /\ store' = IF ok
                         THEN StoreSetNX(store, lock, r.timeout + lockSlack, p)
                         ELSE store
             /\ proc' = [proc EXCEPT ![p] =
                    Granted(NXCallback([r EXCEPT !.inflight = @ - 1], ok,
                                       ok /\ NXGranted(store, lock)),
                            ok /\ NXGranted(store, lock))]
        /\ UNCHANGED <<now, menu>>

\* the store executes the write of the cache entry and cb runs: on an
\* error it rejects, otherwise it sends DEL lock
WriteReply(p) ==
    LET r == proc[p]
    IN  /\ r.pc = "writing"
        /\ r.inflight = 0
        /\ \E ok \in BOOLEAN :
             /\ Fault(ok)
             /\ store' = IF ok
                         THEN StoreSet(store, EntryKey(r.key), Encode(r.val), r.ttl)
                         ELSE store
             /\ proc' = [proc EXCEPT ![p] = WriteCallback(r, ok)]
        /\ UNCHANGED <<now, menu>>

\* the store executes DEL lock and its callback runs
ReleaseReply(p) ==
    LET r == proc[p]
    IN  /\ r.pc = "releasing"
        /\ \E ok \in BOOLEAN :
             /\ Fault(ok)
             /\ store' = IF ok THEN StoreDel(store, LockKey(r.key)) ELSE store
             /\ proc' = [proc EXCEPT ![p] = ReleaseCallback(r, ok)]
        /\ UNCHANGED <<now, menu>>

\* get(key, update, ttl, timeout): validation, then GET prefix+key
CallGet(p) ==
    /\ proc[p].pc = "idle"
    /\ \E c \in menu[p] :
         /\ c.op = "get"
         /\ c.late \/ now = 0
         /\ proc' = [proc EXCEPT ![p] =
                IF ~c.kstr \/ (c.upd = "none" /\ c.ttlGiven)
                THEN [Idle EXCEPT !.op = "get", !.key = c.key, !.call = c,
                                  !.pc = "end",
                                  !.out = "thrown",
                                  !.res = Err("TypeError", "argument")]
                ELSE LET effTtl == EffTTL(c.ttlGiven, c.ttl)
                     IN  [Idle EXCEPT !.op = "get", !.key = c.key, !.call = c,
                                      !.upd = c.upd, !.updv = c.updv,
                                      !.ds = c.ds,
                                      !.ttl = effTtl,
                                      !.timeout = EffTimeout(c.toGiven, c.to, effTtl),
                                      !.pc = "reading", !.out = "pending",
                                      !.nGet = 1]]
    /\ UNCHANGED <<now, store, faults, menu>>

\* the store executes GET and its callback runs: a miss with an update
\* function invokes it, anything else resolves with the stored value
GetReply(p) ==
    LET r == proc[p]
        value == StoreGet(store, EntryKey(r.key))
    IN  /\ r.pc = "reading"
        /\ \E ok \in BOOLEAN :
             /\ Fault(ok)
             /\ proc' = [proc EXCEPT ![p] = GetCallback(r, ok, value)]
        /\ UNCHANGED <<now, store, menu>>

\* the update function calls back: with an error, or with a result that is
\* handed to this.set(key, result, ttl, timeout)
UpdateDone(p) ==
    LET r == proc[p]
    IN  /\ r.pc = "computing"
        /\ \E d \in RetryDelays :
             /\ r.upd # "err" => d \in r.ds
             /\ proc' = [proc EXCEPT ![p] = UpdateCallback(r, d)]
        /\ UNCHANGED <<now, store, faults, menu>>

\* del(key): DEL prefix+key
CallDel(p) ==
    /\ proc[p].pc = "idle"
    /\ \E c \in menu[p] :
         /\ c.op = "del"
         /\ c.late \/ now = 0
         /\ proc' = [proc EXCEPT ![p] =
                [Idle EXCEPT !.op = "del", !.key = c.key, !.call = c,
                             !.pc = "deleting",
                             !.out = "pending", !.nDel = 1]]
    /\ UNCHANGED <<now, store, faults, menu>>

\* the store executes DEL and its callback runs
DelReply(p) ==
    LET r == proc[p]
        k == EntryKey(r.key)
    IN  /\ r.pc = "deleting"
        /\ \E ok \in BOOLEAN :
             /\ Fault(ok)
             /\ store' = IF ok THEN StoreDel(store, k) ELSE store
             /\ proc' = [proc EXCEPT ![p] =
                    DelCallback(r, ok, IF Present(store, k) THEN 1 ELSE 0)]
        /\ UNCHANGED <<now, menu>>

\* time passes to the next timer tick or key expiry; a due timer fires first
Min(S) == CHOOSE x \in S : \A y \in S : x <= y
Ticks == {proc[p].nextTick : p \in {q \in Procs : proc[q].timerOn}}
Expiries == {store[l].exp : l \in {m \in Locs : store[m].live /\ store[m].exp # Never}}
Advance ==
    LET cand == {t \in Ticks \cup Expiries : t > now /\ t <= MaxTime}
    IN  /\ \A p \in Procs : proc[p].timerOn => proc[p].nextTick > now
        /\ cand # {}
        /\ now' = Min(cand)
        /\ store' = Expire(store, now')
        /\ UNCHANGED <<proc, faults, menu>>

Next ==
    \/ \E p \in Procs : CallSet(p)
    \/ \E p \in Procs : Tick(p)
    \/ \E p \in Procs : NXReply(p)
    \/ \E p \in Procs : WriteReply(p)
    \/ \E p \in Procs : ReleaseReply(p)
    \/ \E p \in Procs : CallGet(p)
    \/ \E p \in Procs : GetReply(p)
    \/ \E p \in Procs : UpdateDone(p)
    \/ \E p \in Procs : CallDel(p)
    \/ \E p \in Procs : DelReply(p)
    \/ Advance

(***************************************************************************)
(* Workloads: menu[p] is the set of calls caller p may make (one call per  *)
(* caller).                                                                *)
(***************************************************************************)
X == Str("x")
Y == Str("123")
Z == Str("z")
RecomputeError == Err("error", "recompute failed")

\* two callers: set / get / del on one key, and del of a key named lock:a
MenuMain ==
    [p \in Procs |->
        CASE p = 1 -> {SetCall("a", X, TRUE, 1, TRUE, 20, RetryDelays, TRUE),
                       GetCall("a", "ok", X, FALSE, 0, TRUE, 20, RetryDelays)}
          [] p = 2 -> {SetCall("a", Y, TRUE, 1, TRUE, 20, RetryDelays, TRUE),
                       GetCall("a", "ok", Y, FALSE, 0, TRUE, 20, RetryDelays),
                       GetCall("a", "err", RecomputeError, FALSE, 0, FALSE, 0, {}),
                       GetCall("a", "ok", Undefined, FALSE, 0, FALSE, 0, RetryDelays),
                       GetCall("a", "none", NoRes, FALSE, 0, FALSE, 0, {}),
                       DelCall("a"), DelCall("lock:a")}
          [] OTHER -> {}]

\* three callers set one key at time 0, each retrying every retryDelayMax ms
MenuSets ==
    [p \in Procs |->
        CASE p = 1 -> {SetCall("a", X, TRUE, 1, TRUE, 60, {retryDelayMax}, FALSE)}
          [] p = 2 -> {SetCall("a", Y, TRUE, 1, TRUE, 60, {retryDelayMax}, FALSE)}
          [] OTHER -> {SetCall("a", Z, TRUE, 1, TRUE, 60, {retryDelayMax}, FALSE)}]

\* a call whose key argument is not a string
NonStringKey(c) == [c EXCEPT !.kstr = FALSE]

\* arguments: set without ttl and timeout, with ttl 0, negative and positive;
\* a key that starts with lock:; a non-string key; an undefined value
MenuArgs ==
    [p \in Procs |->
        CASE p = 1 -> {SetCall("a", X, FALSE, 0, FALSE, 0, {retryDelayMax}, FALSE),
                       SetCall("a", X, TRUE, 0, FALSE, 0, {retryDelayMax}, FALSE),
                       SetCall("a", X, TRUE, -1, FALSE, 0, {retryDelayMax}, FALSE),
                       SetCall("a", X, TRUE, 2, FALSE, 0, {retryDelayMax}, FALSE)}
          [] p = 2 -> {SetCall("lock:a", Z, TRUE, -1, TRUE, 20, {retryDelayMax}, FALSE),
                       SetCall("a", Undefined, TRUE, 1, TRUE, 20, {retryDelayMax}, FALSE),
                       NonStringKey(SetCall("a", Y, TRUE, 1, TRUE, 20,
                                            {retryDelayMax}, FALSE)),
                       NonStringKey(GetCall("a", "ok", Y, FALSE, 0, TRUE, 20,
                                            {retryDelayMax}))}
          [] OTHER -> {}]

\* the store is empty and no call has been made; store errors are injected
\* in the two-caller workload only
Init ==
    /\ now = 0
    /\ store = [l \in Locs |-> Absent]
    /\ proc = [p \in Procs |-> Idle]
    /\ menu \in {MenuMain, MenuSets, MenuArgs}
    /\ faults = IF menu = MenuMain THEN MaxFaults ELSE 0

Spec == Init /\ [][Next]_vars

(***************************************************************************)
(* Properties                                                              *)
(***************************************************************************)
LockOf(p) == LockKey(proc[p].key)
\* p's own token is in the store
OwnsToken(p) == Present(store, LockOf(p)) /\ store[LockOf(p)].by = p
\* p is between the success of its conditional set and the end of its release
Holding(p) == proc[p].lockP = "resolved" /\ proc[p].pc \in {"writing", "releasing"}
\* the write of the cache entry failed after p had acquired the lock
WriteFailed(p) ==
    /\ proc[p].setP = "rejected"
    /\ proc[p].nWrite = 1
    /\ proc[p].nRelease = 0
TimedOut(p) == proc[p].setP = "rejected" /\ proc[p].setRes.t = "AcquireError"

\* C1: a set that acquired the lock and whose write of the cache entry then
\* failed has released the lock once it has rejected: no token written by
\* that call is left in the store.
C1_FailedSetReleasesLock ==
    \A p \in Procs : WriteFailed(p) => ~OwnsToken(p)

\* C2: of the callers whose get(key, recompute) missed, at most one is
\* running recompute at any time (the others wait for its value).
C2_RecomputeByAtMostOne ==
    \A p, q \in Procs :
        (p # q /\ proc[p].key = proc[q].key) =>
            ~(proc[p].pc = "computing" /\ proc[q].pc = "computing")

\* C3 (as claimed): at every instant at most one set call per key is between
\* the success of its conditional set and the completion of its release.
C3_AtMostOneHolder ==
    \A p, q \in Procs :
        (p # q /\ proc[p].key = proc[q].key) => ~(Holding(p) /\ Holding(q))

\* C3 (amended): a conditional set on a lock key succeeds only when no token
\* is in the store under that key, and it leaves the caller's token there; so
\* a second call can acquire only after the earlier token has expired or been
\* deleted.
C3_GrantOnlyWhenAbsent ==
    [][\A p \in Procs :
          proc'[p].nAcq > proc[p].nAcq =>
              /\ ~Present(store, LockOf(p))
              /\ Present(store', LockOf(p))
              /\ store'[LockOf(p)].by = p
              /\ store'[LockOf(p)].exp = now + proc[p].timeout + lockSlack]_vars

\* C3 witness: one caller holds the lock with its token live while another
\* caller of the same key has been refused at least once and is still trying
C3_Contended ==
    \E p, q \in Procs :
        /\ p # q
        /\ Holding(p) /\ OwnsToken(p)
        /\ proc[q].key = proc[p].key
        /\ proc[q].lockP = "pending"
        /\ proc[q].attempts >= 2
        /\ proc[q].inflight = 0

\* C4: two or more concurrent set calls of one key with different values,
\* no store error and no acquisition timeout: every call resolves, and once
\* all have, the cache entry holds one of the written values and the lock
\* key is absent.
Called == {p \in Procs : proc[p].op # "none"}
AllSetsDone ==
    /\ Cardinality(Called) >= 2
    /\ \A p \in Called :
          /\ proc[p].op = "set"
          /\ proc[p].pc = "end"
          /\ proc[p].key = "a"
          /\ proc[p].setP # "thrown"
          /\ proc[p].setRes.t # "RedisError"
          /\ ~TimedOut(p)
C4_ConcurrentSets ==
    AllSetsDone =>
        /\ \A p \in Called : proc[p].out = "resolved" /\ proc[p].res.t = "stats"
        /\ Present(store, EntryKey("a"))
        /\ store[EntryKey("a")].v \in {Encode(proc[p].val) : p \in Called}
        /\ ~Present(store, LockKey("a"))

\* C4 witness: three calls are done, and one of them was granted the lock
\* only at a retry
C4_AllResolved ==
    /\ AllSetsDone
    /\ Cardinality(Called) = 3
    /\ Cardinality({proc[p].val : p \in Called}) = 3
    /\ \E p \in Called : proc[p].stats >= 2

\* C5: when the set that get delegates to fails (rejects or throws), the
\* promise returned by get is rejected.
C5_GetSurfacesSetFailure ==
    \A p \in Procs :
        (proc[p].op = "get" /\ proc[p].setP \in {"rejected", "thrown"}) =>
            proc[p].out = "rejected"

\* C6: a set call that failed with the acquire-timeout error has acquired
\* nothing: none of its conditional sets was granted and no token of its own
\* is in the store.
C6_TimeoutAcquiredNothing ==
    \A p \in Procs : TimedOut(p) => (proc[p].nAcq = 0 /\ ~OwnsToken(p))

\* C7: the lock phase of a set is over by the first retry tick after the
\* timeout: while the lock promise is pending, at most timeout + retryDelay
\* have elapsed; a call that gave up was never granted the lock before that,
\* gave up no later than that, has issued no write, and issues no further
\* conditional set.
C7_Window ==
    \A p \in Procs :
        /\ proc[p].lockP = "pending" =>
               now - proc[p].start <= proc[p].timeout + proc[p].delay
        /\ (proc[p].lockP = "rejected" /\ proc[p].setRes.t # "RedisError") =>
               TimedOut(p)
        /\ TimedOut(p) =>
               /\ proc[p].nWrite = 0
               /\ proc[p].nRelease = 0
               /\ proc[p].endAt - proc[p].start > proc[p].timeout
               /\ proc[p].endAt - proc[p].start <= proc[p].timeout + proc[p].delay
C7_TimeoutBoundary ==
    /\ []C7_Window
    /\ [][\A p \in Procs :
            TimedOut(p) => /\ proc'[p].nNX = proc[p].nNX
                           /\ proc'[p].nWrite = 0
                           /\ proc'[p].setP = "rejected"]_vars

\* C7 witness: a set gave up while another caller's token stayed in the store
C7_GaveUp ==
    \E p, q \in Procs :
        /\ p # q
        /\ proc[p].op = "set"
        /\ TimedOut(p)
        /\ proc[p].nNX >= 2
        /\ proc[p].nAcq = 0
        /\ proc[p].inflight = 0
        /\ OwnsToken(q)
        /\ ~Present(store, EntryKey(proc[p].key))

\* C8: a get whose recompute yields an error rejects with that very error,
\* never calls set, and sends nothing to the store but its GET: no step of
\* that call changes the store.
RecomputeFailed(p) ==
    proc[p].op = "get" /\ proc[p].upd = "err" /\ proc[p].nRecompute = 1
C8_State ==
    \A p \in Procs :
        (RecomputeFailed(p) /\ proc[p].pc = "end") =>
            /\ proc[p].out = "rejected"
            /\ proc[p].res = RecomputeError
            /\ proc[p].nSet = 0 /\ proc[p].nNX = 0 /\ proc[p].nWrite = 0
            /\ proc[p].nRelease = 0 /\ proc[p].nDel = 0
            /\ proc[p].setP = "none"
C8_RecomputeError ==
    /\ []C8_State
    /\ [][\A p \in Procs :
            (proc'[p] # proc[p] /\ proc'[p].op = "get" /\ proc'[p].upd = "err") =>
                store' = store]_vars

\* C8 witness: the get has rejected with the recompute error
C8_Rejected ==
    \E p \in Procs :
        /\ RecomputeFailed(p)
        /\ proc[p].pc = "end"
        /\ proc[p].out = "rejected"
        /\ proc[p].res = RecomputeError

\* C9: on a hit get resolves with the decoded stored string and neither
\* invokes recompute nor sends a write, conditional set or delete; on a miss
\* without recompute it resolves with null; in both cases the step that
\* answers the GET leaves the store as it is.
C9_State ==
    \A p \in Procs :
        proc[p].op = "get" =>
            /\ proc[p].hit =>
                   /\ proc[p].pc = "end"
                   /\ proc[p].out = "resolved"
                   /\ proc[p].got.t = "str"
                   /\ proc[p].res =
                          (IF IsJSON(proc[p].got.s) THEN JsonParse(proc[p].got.s)
                           ELSE proc[p].got)
                   /\ proc[p].nRecompute = 0
                   /\ proc[p].nSet = 0 /\ proc[p].nNX = 0 /\ proc[p].nWrite = 0
                   /\ proc[p].nRelease = 0 /\ proc[p].nDel = 0
            /\ (~proc[p].hit /\ proc[p].upd = "none" /\ proc[p].out = "resolved") =>
                   /\ proc[p].res = Null
                   /\ proc[p].nRecompute = 0
                   /\ proc[p].nSet = 0 /\ proc[p].nNX = 0 /\ proc[p].nWrite = 0
                   /\ proc[p].nRelease = 0 /\ proc[p].nDel = 0
C9_HitAndPlainMiss ==
    /\ []C9_State
    /\ [][\A p \in Procs :
            (proc[p].pc = "reading" /\ proc'[p].pc # "reading"
                                    /\ proc'[p].out # "rejected") =>
                /\ store' = store
                /\ proc'[p].hit = Present(store, EntryKey(proc[p].key))
                /\ Present(store, EntryKey(proc[p].key)) =>
                       proc'[p].got = Str(store[EntryKey(proc[p].key)].v)]_vars

\* C9 witness: a get with a recompute function hit an entry whose text is
\* JSON, and resolved with the parsed value
C9_Hit ==
    \E p \in Procs :
        /\ proc[p].op = "get"
        /\ proc[p].hit
        /\ proc[p].upd # "none"
        /\ proc[p].got = Str("123")
        /\ proc[p].res = Num("123")

\* C10: the step in which del(key) is executed changes no lock token (for
\* every key, the lock key is present after it iff it was before), and del
\* resolves with 1 when the entry existed and 0 when it did not.
C10_DelLeavesLocks ==
    [][\A p \in Procs :
          (proc[p].pc = "deleting" /\ proc'[p].pc = "end") =>
              /\ \A k \in Keys : store'[LockKey(k)] = store[LockKey(k)]
              /\ proc'[p].out = "resolved" =>
                     proc'[p].res =
                         Count(IF Present(store, EntryKey(proc[p].key)) THEN 1 ELSE 0)]_vars

\* C11: round trip.  After set(key, v) has resolved, and with no other write
\* by any caller, a get(key) that finds the entry resolves with v itself,
\* of the same type.
C11_RoundTrip ==
    \A p, q \in Procs :
        (/\ proc[p].op = "set" /\ proc[p].out = "resolved"
         /\ proc[q].op = "get" /\ proc[q].key = proc[p].key
         /\ proc[q].hit /\ proc[q].out = "resolved"
         /\ \A o \in Procs \ {p} : proc[o].nWrite = 0)
            => proc[q].res = proc[p].val

\* C12: effective TTL and timeout of set.  With ttl unspecified the entry is
\* written with the default TTL, with ttl > 0 with an expiry of ttl seconds,
\* with ttl <= 0 (zero as well as negative) without expiry; an unspecified
\* timeout is one tenth of the effective TTL when that is positive, and the
\* default timeout otherwise.
ClaimedTTL(c) ==
    IF ~c.ttlGiven THEN defaultTTL
    ELSE IF c.ttl > 0 THEN c.ttl * 1000 ELSE 0
ClaimedTimeout(c) ==
    IF c.toGiven THEN c.to
    ELSE IF ClaimedTTL(c) > 0 THEN ClaimedTTL(c) \div 10 ELSE defaultTimeout
C12_EffectiveTTL ==
    [][\A p \in Procs :
          LET c == proc'[p].call
              k == EntryKey(proc[p].key)
          IN  /\ (proc[p].pc = "idle" /\ proc'[p].op = "set"
                                      /\ proc'[p].setP = "pending") =>
                     proc'[p].timeout = ClaimedTimeout(c)
              /\ (proc[p].op = "set" /\ proc[p].pc = "writing"
                                     /\ proc'[p].pc = "releasing") =>
                     /\ Present(store', k)
                     /\ store'[k].exp = IF ClaimedTTL(c) > 0
                                        THEN now + ClaimedTTL(c)
                                        ELSE Never]_vars

\* C13: the attempts of the lock statistics count the conditional sets the
\* call issued up to and including the one that succeeded (the replies come
\* in the order of the commands, so that one is number nNX - inflight + 1);
\* when no other caller has made a call, attempts is 1.
C13_Attempts ==
    [][\A p \in Procs :
          (proc[p].lockP = "pending" /\ proc'[p].lockP = "resolved") =>
              /\ proc'[p].stats = proc[p].nNX - proc[p].inflight + 1
              /\ (\A q \in Procs \ {p} : proc[q].op = "none") =>
                     proc'[p].stats = 1]_vars

\* C14: no lock key stays in the store forever: whatever is stored under the
\* lock key of a key carries a finite expiry, so it disappears by itself
\* and a set that keeps retrying can acquire the lock.
C14_LockKeysExpire ==
    \A k \in Keys :
        Present(store, LockKey(k)) => store[LockKey(k)].exp # Never

\* C15: every set call goes lock -> write -> unlock.  The write is issued in
\* the step in which one of the call's own conditional sets is granted, the
\* release in the step in which the write is acknowledged, and the call
\* resolves in the step in which the release is acknowledged; there is at
\* most one write and one release, and a call that timed out issues neither.
C15_Order ==
    \A p \in Procs :
        proc[p].setP # "none" =>
            /\ proc[p].nWrite <= 1 /\ proc[p].nRelease <= 1
            /\ proc[p].nWrite = 1 => (proc[p].nAcq >= 1 /\ proc[p].lockP = "resolved")
            /\ proc[p].nRelease = 1 =>
                   (proc[p].nWrite = 1 /\ proc[p].pc \in {"releasing", "end"})
            /\ proc[p].pc = "writing" => (proc[p].nWrite = 1 /\ proc[p].nRelease = 0)
            /\ proc[p].setP = "resolved" => (proc[p].nRelease = 1 /\ proc[p].pc = "end")
            /\ TimedOut(p) => (proc[p].nWrite = 0 /\ proc[p].nRelease = 0)
C15_LockWriteUnlock ==
    /\ []C15_Order
    /\ [][\A p \in Procs :
            /\ proc'[p].nWrite > proc[p].nWrite =>
                   /\ proc'[p].nAcq > proc[p].nAcq
                   /\ Present(store', LockOf(p))
                   /\ store'[LockOf(p)].by = p
            /\ proc'[p].nRelease > proc[p].nRelease =>
                   /\ proc[p].pc = "writing"
                   /\ Present(store', EntryKey(proc[p].key))
                   /\ store'[EntryKey(proc[p].key)].v = Encode(proc[p].val)
            /\ (proc'[p].setP = "resolved" /\ proc[p].setP # "resolved") =>
                   /\ proc[p].pc = "releasing"
                   /\ ~Present(store', LockOf(p))]_vars

\* C15 witness: one call has gone through lock, write and unlock, and
\* another call, which timed out and was granted the lock afterwards, has
\* issued no write
C15_DoneAndTimedOut ==
    \E p, q \in Procs :
        /\ p # q
        /\ proc[p].setP = "resolved"
        /\ proc[p].nAcq = 1 /\ proc[p].nWrite = 1 /\ proc[p].nRelease = 1
        /\ TimedOut(q)
        /\ proc[q].nAcq = 1
        /\ proc[q].nWrite = 0

\* C16: last lock holder wins.  Once two or more set calls of one key have
\* all resolved, the cache entry holds the value of the call that was
\* granted the lock last.
C16_LastHolderWins ==
    (/\ Cardinality(Called) >= 2
     /\ \A p \in Called : /\ proc[p].op = "set"
                          /\ proc[p].key = "a"
                          /\ proc[p].out = "resolved")
        => \E p \in Called :
              /\ proc[p].turn = Grants
              /\ Present(store, EntryKey("a"))
              /\ store[EntryKey("a")].v = Encode(proc[p].val)

\* C17: on the miss path get resolves with the very value that recompute
\* produced (not passed through the decoder), and only after the delegated
\* set has written the entry and released the lock.
C17_MissReturnsOriginal ==
    \A p \in Procs :
        (/\ proc[p].op = "get" /\ proc[p].upd = "ok"
         /\ proc[p].nRecompute = 1 /\ proc[p].out = "resolved")
            => /\ proc[p].res = proc[p].updv
               /\ proc[p].setP = "resolved"
               /\ proc[p].nWrite = 1 /\ proc[p].nRelease = 1

\* C18: invalid arguments are detected before any I/O.  A get or set with a
\* non-string key, and a set with an undefined value (called directly, or by
\* get with an undefined recompute result), throws in the step of the call,
\* sends no command to the store, starts no timer, and leaves the store as
\* it is.
InvalidCall(p) ==
    \/ proc[p].op \in {"set", "get"} /\ ~proc[p].call.kstr
    \/ proc[p].op = "set" /\ proc[p].call.val = Undefined
NoSetIO(p) ==
    /\ proc[p].nNX = 0 /\ proc[p].nWrite = 0 /\ proc[p].nRelease = 0
    /\ proc[p].attempts = 0 /\ proc[p].inflight = 0
    /\ ~proc[p].timerOn
C18_State ==
    \A p \in Procs :
        /\ InvalidCall(p) =>
               /\ proc[p].pc = "end"
               /\ proc[p].out = "thrown"
               /\ proc[p].res.t = "TypeError"
               /\ proc[p].nGet = 0 /\ proc[p].nDel = 0
               /\ NoSetIO(p)
        /\ (proc[p].op = "get" /\ proc[p].updv = Undefined
                               /\ proc[p].setP # "none") =>
               /\ proc[p].setP = "thrown"
               /\ proc[p].setRes.t = "TypeError"
               /\ NoSetIO(p)
C18_InvalidBeforeIO ==
    /\ []C18_State
    /\ [][\A p \in Procs :
            (proc'[p] # proc[p] /\ (proc'[p].out = "thrown"
                                    \/ proc'[p].setP = "thrown")) =>
                store' = store]_vars

\* C18 witness: a set with a non-string key has thrown while another
\* caller's valid set holds the lock
C18_Thrown ==
    \E p, q \in Procs :
        /\ p # q
        /\ proc[p].op = "set"
        /\ ~proc[p].call.kstr
        /\ proc[p].out = "thrown"
        /\ Holding(q) /\ OwnsToken(q)

\* C19: lock keys and cache-entry keys never collide.  For any two calls
\* that have been made, the store location of the one's cache entry differs
\* from the location of the other's lock token; and whatever is stored under
\* a lock key was written by a conditional set, with an expiry.
C19_NoCollision ==
    /\ \A p, q \in Called : EntryKey(proc[p].key) # LockKey(proc[q].key)
    /\ \A k \in Keys :
          Present(store, LockKey(k)) =>
              (store[LockKey(k)].by # 0 /\ store[LockKey(k)].v = "1")

\* C20: the release of a set call removes only the token that call holds:
\* when the lock key holds the token of another call, the step that executes
\* the release leaves that token in the store.
C20_ReleaseOwnToken ==
    [][\A p \in Procs :
          (/\ proc[p].pc = "releasing" /\ proc'[p].pc # "releasing"
           /\ Present(store, LockOf(p))
           /\ store[LockOf(p)].by \in Procs \ {p})
              => store'[LockOf(p)] = store[LockOf(p)]]_vars

====
